---- MODULE Spec2Model ----
(***************************************************************************)
(* A model of tb::mdl::BrushFace (common/src/mdl/BrushFace.cpp).           *)
(*                                                                         *)
(* Numbers.  A coordinate is a fixed-point number: the integer x stands    *)
(* for the real x / Unit.  Unit is chosen so that the correction epsilon   *)
(* of vm::correct (0.001) is CorrectEpsilon units, the coarsest grid on    *)
(* which a value can lie strictly inside the epsilon of a whole number     *)
(* without being that whole number.                                        *)
(*                                                                         *)
(* Planes.  vm::plane3d holds a unit normal and a distance.  The model     *)
(* keeps the primitive integer vector n parallel to the unit normal and    *)
(* the rational num/den = distance * |n|; two planes are equal exactly     *)
(* when these representations are equal.  den = 0 stands for a plane whose *)
(* normal is NaN (the normalisation of the zero vector).                   *)
(***************************************************************************)
EXTENDS Integers, Sequences, FiniteSets, TLC

VARIABLES
  faces,    \* slot -> the face object held there, or NoFace
  uvHeap,   \* id -> the UV coordinate system allocated there, or Free
  last,     \* the most recent call: its arguments, the face before it, its outcome
  prev,     \* the call before that
  nops,     \* the number of calls made
  ndebug    \* whether the build defines NDEBUG (assert compiles to nothing)

vars == <<faces, uvHeap, last, prev, nops, ndebug>>

-----------------------------------------------------------------------------
(* Bounds of the model. *)

\* the face slots 1..NumFaces (the objects a caller holds at one time)
NumFaces == 2

\* the number of operations of one run of the geometry specification
MaxOps == 3

\* the bounds of the world a face is transformed within, in whole units
MaxCoord == 5

\* vm::constants<double>::correct_epsilon() = 0.001, in units
CorrectEpsilon == 2

Unit == 1000 * CorrectEpsilon

\* nullptr, for the UV coordinate system and the geometry back-reference
Null == 0

\* a slot that holds no face object
NoFace == [destroyed |-> TRUE]

\* std::nullopt, for an optional plane
NoPlane == [nullopt |-> TRUE]

\* a cell of the heap that holds no UV coordinate system
Free == [free |-> TRUE]

Ok == "ok"

InvalidFace == "Brush has invalid face"

\* ensure(...) or assert(...) failed: the process is terminated
Abort == "contract violation"

\* a read through a null pointer: the process crashed
Crash == "crash"

\* a read through a null pointer that returned whatever was there
Garbage == "garbage"

\* the state of a run before its first operation
None == "none"

-----------------------------------------------------------------------------
(* vm: vectors, matrices, planes. *)

Abs(x) == IF x < 0 THEN -x ELSE x

RECURSIVE Gcd(_, _)
Gcd(a, b) == IF b = 0 THEN Abs(a) ELSE Gcd(b, a % Abs(b))

Zero3 == <<0, 0, 0>>

VAdd(a, b) == <<a[1] + b[1], a[2] + b[2], a[3] + b[3]>>

VSub(a, b) == <<a[1] - b[1], a[2] - b[2], a[3] - b[3]>>

VNeg(a) == <<-a[1], -a[2], -a[3]>>

VScale(a, k) == <<a[1] * k, a[2] * k, a[3] * k>>

Dot(a, b) == a[1] * b[1] + a[2] * b[2] + a[3] * b[3]

Cross(a, b) ==
  <<a[2] * b[3] - a[3] * b[2], a[3] * b[1] - a[1] * b[3], a[1] * b[2] - a[2] * b[1]>>

Gcd3(a) == Gcd(Gcd(a[1], a[2]), a[3])

\* vm::normalize: the direction of a, as the primitive integer vector along it;
\* the zero vector has no direction (NaN), which stays Zero3
Normalize(a) ==
  IF a = Zero3 THEN Zero3
  ELSE <<a[1] \div Gcd3(a), a[2] \div Gcd3(a), a[3] \div Gcd3(a)>>

\* a rational num/den with den > 0, in lowest terms
Ratio(num, den) ==
  LET g == Gcd(num, den) IN [num |-> num \div g, den |-> den \div g]

\* std::round on the grid: the nearest whole number, halves away from zero
Round(x) ==
  IF x >= 0 THEN ((x + Unit \div 2) \div Unit) * Unit
  ELSE -((((-x) + Unit \div 2) \div Unit) * Unit)

\* vm::correct(v, 0, correct_epsilon) on one coordinate
correct1(x) == IF Abs(x - Round(x)) < CorrectEpsilon THEN Round(x) ELSE x

correct(p) == <<correct1(p[1]), correct1(p[2]), correct1(p[3])>>

NaNPlane == [normal |-> Zero3, num |-> 0, den |-> 0]

\* vm::plane3d{anchor, normal}: distance = dot(anchor, normal)
PlaneAt(anchor, n) == [normal |-> n, num |-> Dot(anchor, n), den |-> 1]

\* vm::from_points: no plane when the points are collinear or coincide
from_points(p0, p1, p2) ==
  LET c == Cross(VSub(p2, p0), VSub(p1, p0))
  IN  IF c = Zero3 THEN NoPlane ELSE PlaneAt(p0, Normalize(c))

\* vm::plane::flip
PlaneFlip(pl) == [normal |-> VNeg(pl.normal), num |-> -pl.num, den |-> pl.den]

\* a rational point: the real point is num / den (componentwise)
RPoint(num, den) ==
  LET g == Gcd(Gcd3(num), den)
  IN  IF den = 0 THEN [num |-> Zero3, den |-> 0]
      ELSE [num |-> <<num[1] \div g, num[2] \div g, num[3] \div g>>, den |-> den \div g]

\* vm::plane::anchor: normal * distance
PlaneAnchor(pl) ==
  RPoint(VScale(pl.normal, pl.num), pl.den * Dot(pl.normal, pl.normal))

MatVec(L, a) == <<Dot(L[1], a), Dot(L[2], a), Dot(L[3], a)>>

\* transform * point, for an affine matrix [lin, t]
Apply(M, p) == VAdd(MatVec(M.lin, p), M.t)

\* vm::plane::transform: plane{M * anchor(), normalize(strip_translation(M) * normal)}
PlaneTransform(pl, M) ==
  LET m  == MatVec(M.lin, pl.normal)
      g  == Gcd3(m)
      mp == Normalize(m)
      nn == Dot(pl.normal, pl.normal)
      d  == Ratio(pl.num * g * Dot(mp, mp) + Dot(M.t, mp) * pl.den * nn, pl.den * nn)
  IN  IF pl.den = 0 \/ m = Zero3 THEN NaNPlane
      ELSE [normal |-> mp, num |-> d.num, den |-> d.den]

-----------------------------------------------------------------------------
(* BrushFaceAttributes and the UV coordinate systems (collaborators of the face). *)

\* BrushFaceAttributes{materialName}; an optional field is <<>> or <<value>>
Attributes(name) ==
  [materialName |-> name, xOffset |-> 0, yOffset |-> 0, rotation |-> 0,
   xScale |-> 1, yScale |-> 1, surfaceContents |-> <<>>, surfaceFlags |-> <<>>,
   surfaceValue |-> <<>>, color |-> <<>>]

\* the texture axes the paraxial projection picks for a normal: the base axis with
\* the largest component wins, z before x before y on a tie
ParaxialAxes(n) ==
  IF Abs(n[3]) >= Abs(n[1]) /\ Abs(n[3]) >= Abs(n[2])
  THEN [uAxis |-> <<1, 0, 0>>, vAxis |-> <<0, -1, 0>>]
  ELSE IF Abs(n[1]) >= Abs(n[2])
  THEN [uAxis |-> <<0, 1, 0>>, vAxis |-> <<0, 0, -1>>]
  ELSE [uAxis |-> <<1, 0, 0>>, vAxis |-> <<0, 0, -1>>]

\* mdl::isParallelUVCoordSystem
isParallelUVCoordSystem(mapFormat) == mapFormat = "Valve"

\* ParaxialUVCoordSystem{point0, point1, point2, attributes} and
\* ParallelUVCoordSystem{point0, point1, point2, attributes}
UVCoordSystem(kind, point0, point1, point2) ==
  LET ax == ParaxialAxes(Cross(VSub(point2, point0), VSub(point1, point0)))
  IN  [kind |-> kind, uAxis |-> ax.uAxis, vAxis |-> ax.vAxis]

\* UVCoordSystem::setNormal: the axes are carried to the new normal
uvSetNormal(uv, newNormal) ==
  LET ax == ParaxialAxes(newNormal)
  IN  [uv EXCEPT !.uAxis = ax.uAxis, !.vAxis = ax.vAxis]

\* UVCoordSystem::transform: the axes are transformed with the face
uvTransform(uv, M) ==
  [uv EXCEPT !.uAxis = Normalize(MatVec(M.lin, uv.uAxis)),
             !.vAxis = Normalize(MatVec(M.lin, uv.vAxis))]

\* UVCoordSystem::rotate about the normal, by an angle of whole quarter turns
RECURSIVE uvRotate(_, _)
uvRotate(uv, angle) ==
  IF angle = 0 THEN uv
  ELSE uvRotate([uv EXCEPT !.uAxis = uv.vAxis, !.vAxis = VNeg(uv.uAxis)], angle - 90)

\* UVCoordSystem::toParaxial / toParallel: a new system of the other (or same) kind
uvConvert(uv, kind) == [uv EXCEPT !.kind = kind]

-----------------------------------------------------------------------------
(* The heap of UV coordinate systems: std::unique_ptr<UVCoordSystem>. *)

UvIds == 1 .. (NumFaces + 1)

\* operator new: the first cell that is free
NewId(heap) == CHOOSE i \in UvIds : heap[i] = Free /\ \A j \in 1 .. (i - 1) : heap[j] # Free

\* std::make_unique: [heap, id]
Alloc(heap, uv) == [heap |-> [heap EXCEPT ![NewId(heap)] = uv], id |-> NewId(heap)]

\* ~unique_ptr
Release(heap, id) == IF id = Null THEN heap ELSE [heap EXCEPT ![id] = Free]

-----------------------------------------------------------------------------
(* The half-edge boundaries of the polyhedron (BrushFaceGeometry). *)

P(x, y, z) == <<x * Unit, y * Unit, z * Unit>>

\* the boundaries a face can be attached to: each is the circular list of the
\* origins of its half-edges, front() first
\* the boundary b with its k-th next half-edge as front()
Rotate(b, k) == [i \in 1 .. Len(b) |-> b[((i + k - 1) % Len(b)) + 1]]

\* the boundaries of the same cycle of half-edges, one for each choice of front()
Rotations(b) == [k \in 1 .. Len(b) |-> Rotate(b, k - 1)]

\* polygons in the plane z = 0: the unit square, a convex pentagon, and two
\* concave ones, L-shaped and arrow-shaped
Square == <<P(0, 0, 0), P(1, 0, 0), P(1, 1, 0), P(0, 1, 0)>>

Pentagon == <<P(0, 0, 0), P(2, 0, 0), P(3, 1, 0), P(2, 2, 0), P(0, 2, 0)>>

LShape == <<P(0, 0, 0), P(2, 0, 0), P(2, 1, 0), P(1, 1, 0), P(1, 2, 0), P(0, 2, 0)>>

Arrow == <<P(0, 0, 0), P(2, 1, 0), P(0, 2, 0), P(1, 1, 0)>>

Boundaries ==
  << <<P(0, 0, 0), P(0, 1, 0), P(1, 0, 0)>>,
     <<P(0, 0, 1), P(1, 0, 1), P(1, 1, 1), P(0, 1, 1)>>,
     <<P(1, 0, 0), P(2, 0, 0), P(2, 1, 0), P(0, 0, 0)>>,
     <<<<1, 0, 0>>, <<Unit, 1, 0>>, <<0, 0, Unit - 1>>>> >>
    \o Rotations(Square) \o Rotations(Pentagon) \o Rotations(LShape) \o Rotations(Arrow)

GeometryIds == 1 .. Len(Boundaries)

\* the boundaries the faces of the geometry specification are attached to
KernelGeometry == 1 .. 4

\* m_geometry->boundary()
boundaryOf(geometry) == Boundaries[geometry]

next(b, i) == (i % Len(b)) + 1

previous(b, i) == ((i + Len(b) - 2) % Len(b)) + 1

RECURSIVE SumTo(_, _)
SumTo(b, k) == IF k = 0 THEN Zero3 ELSE VAdd(SumTo(b, k - 1), b[k])

-----------------------------------------------------------------------------
(* BrushFace. *)

\* BrushFace::BrushFace(points, boundary, attributes, uvCoordSystem); the members
\* without an initialiser take their defaults
BrushFace(points, boundary, attributes, uvCoordSystem) ==
  [points |-> points, boundary |-> boundary, attributes |-> attributes,
   materialReference |-> Null, uvCoordSystem |-> uvCoordSystem, geometry |-> Null,
   selected |-> FALSE]

\* create without the correction of the points
create_uncorrected(point0, point1, point2, attributes, uvCoordSystem) ==
  LET plane == from_points(point0, point1, point2)
  IN  IF plane # NoPlane
      THEN [status |-> Ok,
            face |-> BrushFace(<<point0, point1, point2>>, plane, attributes, uvCoordSystem)]
      ELSE [status |-> InvalidFace, face |-> NoFace]

\* BrushFace::create(point0, point1, point2, attributes, uvCoordSystem)
create(point0, point1, point2, attributes, uvCoordSystem) ==
  LET points == <<correct(point0), correct(point1), correct(point2)>>
      plane  == from_points(points[1], points[2], points[3])
  IN  IF plane # NoPlane
      THEN [status |-> Ok, face |-> BrushFace(points, plane, attributes, uvCoordSystem)]
      ELSE [status |-> InvalidFace, face |-> NoFace]

\* BrushFace::correctPoints
correctPoints(face) ==
  [face EXCEPT !.points = <<correct(face.points[1]), correct(face.points[2]),
                            correct(face.points[3])>>]

\* setPoints deriving the plane from the points in the wrong order
setPoints_misordered(face, point0, point1, point2) ==
  LET f1    == correctPoints([face EXCEPT !.points = <<point0, point1, point2>>])
      plane == from_points(f1.points[1], f1.points[3], f1.points[2])
  IN  IF plane # NoPlane
      THEN [status |-> Ok, face |-> [f1 EXCEPT !.boundary = plane]]
      ELSE [status |-> InvalidFace, face |-> f1]

\* BrushFace::setPoints
setPoints(face, point0, point1, point2) ==
  LET f1    == correctPoints([face EXCEPT !.points = <<point0, point1, point2>>])
      plane == from_points(f1.points[1], f1.points[2], f1.points[3])
  IN  IF plane # NoPlane
      THEN [status |-> Ok, face |-> [f1 EXCEPT !.boundary = plane]]
      ELSE [status |-> InvalidFace, face |-> f1]

\* BrushFace::center: the average of the boundary's vertex positions
center(face) ==
  LET b == boundaryOf(face.geometry) IN RPoint(SumTo(b, Len(b)), Len(b))

\* the test of transform finding no winding inverted
windingInverted_never(points, boundary) == FALSE

\* whether transform swaps the second and third point: the sign of
\* dot(cross(points[2] - points[0], points[1] - points[0]), boundary.normal), taken
\* of the directions of the two vectors
windingInverted(points, boundary) ==
  Dot(Normalize(Cross(VSub(points[3], points[1]), VSub(points[2], points[1]))),
      boundary.normal) < 0

\* transform running the UV step whether or not the plane could be re-derived
transform_uvUnconditional(face, uv, M, lockAlignment, offset) ==
  LET invariant   == IF face.geometry # Null THEN center(face)
                     ELSE PlaneAnchor(face.boundary)
      oldBoundary == face.boundary
      newBoundary == PlaneTransform(face.boundary, M)
      moved       == <<Apply(M, face.points[1]), Apply(M, face.points[2]),
                       Apply(M, face.points[3])>>
      wound       == IF Dot(Normalize(Cross(VSub(moved[3], moved[1]), VSub(moved[2], moved[1]))),
                            newBoundary.normal) < 0
                     THEN <<moved[1], moved[3], moved[2]>> ELSE moved
      r           == setPoints([face EXCEPT !.boundary = newBoundary, !.points = wound],
                               wound[1], wound[2], wound[3])
  IN  [status |-> r.status,
       face   |-> IF lockAlignment
                  THEN [r.face EXCEPT !.attributes.xOffset = offset] ELSE r.face,
       uv     |-> uvTransform(uv, M),
       calls  |-> << [fn |-> "transform", oldBoundary |-> oldBoundary,
                      newBoundary |-> r.face.boundary, lockAlignment |-> lockAlignment,
                      invariant |-> invariant] >>]

\* BrushFace::transform: [status, face, uv, calls], where uv is the state of the
\* face's UV coordinate system afterwards and calls the calls made on it
transform(face, uv, M, lockAlignment, offset) ==
  LET invariant   == IF face.geometry # Null THEN center(face)
                     ELSE PlaneAnchor(face.boundary)
      oldBoundary == face.boundary
      newBoundary == PlaneTransform(face.boundary, M)
      moved       == <<Apply(M, face.points[1]), Apply(M, face.points[2]),
                       Apply(M, face.points[3])>>
      wound       == IF windingInverted(moved, newBoundary)
                     THEN <<moved[1], moved[3], moved[2]>> ELSE moved
      r           == setPoints([face EXCEPT !.boundary = newBoundary, !.points = wound],
                               wound[1], wound[2], wound[3])
  IN  IF r.status = Ok
      THEN [status |-> Ok,
            face   |-> IF lockAlignment
                       THEN [r.face EXCEPT !.attributes.xOffset = offset] ELSE r.face,
            uv     |-> uvTransform(uv, M),
            calls  |-> << [fn |-> "transform", oldBoundary |-> oldBoundary,
                           newBoundary |-> r.face.boundary, lockAlignment |-> lockAlignment,
                           invariant |-> invariant] >>]
      ELSE [status |-> r.status, face |-> r.face, uv |-> uv, calls |-> <<>>]

\* BrushFace::invert
invert(face) ==
  [face EXCEPT !.boundary = PlaneFlip(face.boundary),
               !.points = <<face.points[1], face.points[3], face.points[2]>>]

\* vm::intersect_plane_plane has a value: the planes are not parallel
hasSeam(p1, p2) ==
  p1.den # 0 /\ p2.den # 0 /\ Cross(p1.normal, p2.normal) # Zero3

\* updatePointsFromVertices taking the first three vertices in next() order
updatePointsFromVertices_firstThree(face, uv, offset) ==
  LET b        == boundaryOf(face.geometry)
      oldPlane == face.boundary
      r        == setPoints(face, b[1], b[2], b[3])
  IN  IF r.status = Ok /\ hasSeam(oldPlane, r.face.boundary)
      THEN [status |-> Ok,
            face   |-> [r.face EXCEPT !.attributes.xOffset = offset],
            uv     |-> uvSetNormal(uv, r.face.boundary.normal),
            calls  |-> << [fn |-> "setNormal", oldBoundary |-> oldPlane,
                           newBoundary |-> r.face.boundary, lockAlignment |-> FALSE,
                           invariant |-> center(r.face)] >>]
      ELSE [status |-> r.status, face |-> r.face, uv |-> uv, calls |-> <<>>]

\* BrushFace::updatePointsFromVertices, for an attached face
updatePointsFromVertices(face, uv, offset) ==
  LET b        == boundaryOf(face.geometry)
      first    == 1
      oldPlane == face.boundary
      r        == setPoints(face, b[next(b, first)], b[first], b[previous(b, first)])
  IN  IF r.status = Ok /\ hasSeam(oldPlane, r.face.boundary)
      THEN [status |-> Ok,
            face   |-> [r.face EXCEPT !.attributes.xOffset = offset],
            uv     |-> uvSetNormal(uv, r.face.boundary.normal),
            calls  |-> << [fn |-> "setNormal", oldBoundary |-> oldPlane,
                           newBoundary |-> r.face.boundary, lockAlignment |-> FALSE,
                           invariant |-> center(r.face)] >>]
      ELSE [status |-> r.status, face |-> r.face, uv |-> uv, calls |-> <<>>]

-----------------------------------------------------------------------------
(* The calls a run makes and what is recorded of each. *)

Faces == 1 .. NumFaces

NoCall ==
  [op |-> None, face |-> 0, other |-> 0, args |-> <<>>, pre |-> NoFace,
   status |-> None, out |-> <<>>, calls |-> <<>>]

Call(op, f, g, args, pre, status, out, calls) ==
  [op |-> op, face |-> f, other |-> g, args |-> args, pre |-> pre,
   status |-> status, out |-> out, calls |-> calls]

\* the process has not been terminated
Running == last.status \notin {Abort, Crash}

Record(call) == last' = call

\* one more call of a run of at most MaxOps calls, the call before it remembered
Tick == /\ nops < MaxOps
        /\ nops' = nops + 1
        /\ prev' = last

\* a call of a run of any length, of which only the last call is remembered
Untimed == UNCHANGED <<prev, nops>>

\* the point triples a caller passes to create: every triple of InputPoints
\* (whole coordinates, some off by less than the correction epsilon), and
\* triples in the plane z = 0 with a coordinate that no correction changes
InputPoints ==
  { <<0, 0, 0>>, <<Unit, 0, 0>>, <<2 * Unit, 1, 0>>, <<0, Unit - 1, 1>>, <<0, 0, Unit>> }

InputTriples ==
  (InputPoints \X InputPoints \X InputPoints)
    \cup { << <<0, 0, 0>>, <<Unit \div 2, Unit \div 2 + 1, 0>>, <<Unit, 0, 0>> >>,
           << <<0, Unit, 0>>, <<0, 0, 0>>, <<Unit \div 2, Unit \div 2 + 1, 0>> >> }

\* the point triples the faces of the geometry specification are created from:
\* in the plane z = 0, with and without a coordinate no correction changes; in
\* the plane x = 0, with coordinates off by less than the correction epsilon; in
\* a plane normal to no axis; and on a line
KernelTriples ==
  { << <<0, 0, 0>>, <<0, Unit, 0>>, <<Unit, 0, 0>> >>,
    << <<0, 0, 0>>, <<Unit \div 2, Unit \div 2 + 1, 0>>, <<Unit, 0, 0>> >>,
    << <<0, 0, 0>>, <<0, 0, Unit>>, <<0, Unit - 1, 1>> >>,
    << <<Unit, 0, 0>>, <<0, 0, Unit>>, <<0, Unit - 1, 1>> >>,
    << <<0, 0, 0>>, <<Unit, 0, 0>>, <<2 * Unit, 1, 0>> >> }

MapFormats == {"Standard", "Valve"}

Offsets == {0, 1}

Linear(r1, r2, r3) == [lin |-> <<r1, r2, r3>>, t |-> Zero3]

Translation(t) == [lin |-> << <<1, 0, 0>>, <<0, 1, 0>>, <<0, 0, 1>> >>, t |-> t]

\* the matrices a caller passes to transform: translations by a whole unit and by
\* less than the correction epsilon, a mirror, a shear (each with its inverse)
\* and a singular projection
Matrices ==
  { Translation(<<Unit, 0, 0>>), Translation(<<-Unit, 0, 0>>),
    Translation(<<0, 1, 0>>), Translation(<<0, -1, 0>>),
    Linear(<<-1, 0, 0>>, <<0, 1, 0>>, <<0, 0, 1>>),
    Linear(<<1, 1, 0>>, <<2, 3, 0>>, <<0, 0, 1>>),
    Linear(<<3, -1, 0>>, <<-2, 1, 0>>, <<0, 0, 1>>),
    Linear(<<1, 0, 0>>, <<0, 1, 0>>, <<0, 0, 0>>) }

-----------------------------------------------------------------------------
(* The geometry of one face: create, transform, invert, updatePointsFromVertices. *)

Create(f, triples) ==
  /\ Running
  /\ faces[f] = NoFace
  /\ \E triple \in triples, mapFormat \in MapFormats :
       LET point0 == triple[1]
           point1 == triple[2]
           point2 == triple[3]
           kind == IF isParallelUVCoordSystem(mapFormat) THEN "parallel" ELSE "paraxial"
           a == Alloc(uvHeap, UVCoordSystem(kind, point0, point1, point2))
           r == create(point0, point1, point2, Attributes("m"), a.id)
       IN  /\ faces' = [faces EXCEPT ![f] = r.face]
           /\ uvHeap' = IF r.status = Ok THEN a.heap ELSE uvHeap
           /\ Record(Call("create", f, 0, <<point0, point1, point2, mapFormat>>, NoFace,
                          r.status, <<>>, <<>>))
  /\ UNCHANGED ndebug

\* the point lies within the bounds of the world
InWorld(p) == \A k \in 1 .. 3 : Abs(p[k]) <= MaxCoord * Unit

Transform(f) ==
  /\ Running
  /\ faces[f] # NoFace
  /\ faces[f].uvCoordSystem # Null
  /\ \E M \in Matrices, lockAlignment \in BOOLEAN :
       \E offset \in IF lockAlignment THEN Offsets ELSE {0} :
         LET r == transform(faces[f], uvHeap[faces[f].uvCoordSystem], M, lockAlignment,
                            offset)
         IN  /\ \A i \in 1 .. 3 : InWorld(Apply(M, faces[f].points[i]))
             /\ faces' = [faces EXCEPT ![f] = r.face]
             /\ uvHeap' = [uvHeap EXCEPT ![faces[f].uvCoordSystem] = r.uv]
             /\ Record(Call("transform", f, 0, <<M, lockAlignment>>, faces[f], r.status,
                            <<>>, r.calls))
  /\ UNCHANGED ndebug

Invert(f) ==
  /\ Running
  /\ faces[f] # NoFace
  /\ faces' = [faces EXCEPT ![f] = invert(faces[f])]
  /\ Record(Call("invert", f, 0, <<>>, faces[f], Ok, <<>>, <<>>))
  /\ UNCHANGED <<uvHeap, ndebug>>

SetGeometry(f, G) ==
  /\ Running
  /\ faces[f] # NoFace
  /\ \E geometry \in {Null} \cup G :
       /\ faces' = [faces EXCEPT ![f].geometry = geometry]
       /\ Record(Call("setGeometry", f, 0, <<geometry>>, faces[f], Ok, <<>>, <<>>))
  /\ UNCHANGED <<uvHeap, ndebug>>

UpdatePointsFromVertices(f) ==
  /\ Running
  /\ faces[f] # NoFace
  /\ faces[f].uvCoordSystem # Null
  /\ IF faces[f].geometry = Null
     THEN /\ Record(Call("updatePointsFromVertices", f, 0, <<>>, faces[f], Abort, <<>>,
                         <<>>))
          /\ UNCHANGED <<faces, uvHeap>>
     ELSE \E offset \in Offsets :
            LET r == updatePointsFromVertices(faces[f], uvHeap[faces[f].uvCoordSystem],
                                              offset)
            IN  /\ (r.calls = <<>> => offset = 0)
                /\ faces' = [faces EXCEPT ![f] = r.face]
                /\ uvHeap' = [uvHeap EXCEPT ![faces[f].uvCoordSystem] = r.uv]
                /\ Record(Call("updatePointsFromVertices", f, 0, <<>>, faces[f],
                               r.status, <<>>, r.calls))
  /\ UNCHANGED ndebug

Init ==
  /\ faces = [f \in Faces |-> NoFace]
  /\ uvHeap = [i \in UvIds |-> Free]
  /\ last = NoCall
  /\ prev = NoCall
  /\ nops = 0
  /\ ndebug = FALSE

Next ==
  \/ Tick /\ last.op = None /\ Create(1, KernelTriples)
  \/ Tick /\ Transform(1)
  \/ Tick /\ Invert(1)
  \/ Tick /\ SetGeometry(1, KernelGeometry)
  \/ Tick /\ UpdatePointsFromVertices(1)

Spec == Init /\ [][Next]_vars

-----------------------------------------------------------------------------
(* Properties of create, transform, invert and updatePointsFromVertices. *)

Collinear(p0, p1, p2) == Cross(VSub(p1, p0), VSub(p2, p0)) = Zero3

Corrected(points) == <<correct(points[1]), correct(points[2]), correct(points[3])>>

Identity3 == << <<1, 0, 0>>, <<0, 1, 0>>, <<0, 0, 1>> >>

Column(L, j) == <<L[1][j], L[2][j], L[3][j]>>

\* N * M = identity, for affine matrices
IsInverse(N, M) ==
  /\ \A i \in 1 .. 3, j \in 1 .. 3 : Dot(N.lin[i], Column(M.lin, j)) = Identity3[i][j]
  /\ Apply(N, M.t) = Zero3

\* every coordinate of every point within the correction epsilon of the other's
Near(ps, qs) ==
  \A i \in 1 .. 3, k \in 1 .. 3 : Abs(ps[i][k] - qs[i][k]) <= CorrectEpsilon

\* C1: create returns "Brush has invalid face" and no face exactly when the
\* corrected points are collinear or coincide; otherwise it returns a face that
\* stores the corrected points in the given order and the plane derived from them.
C1_CreateContract ==
  last.op = "create" =>
    LET points == Corrected(last.args)
    IN  IF Collinear(points[1], points[2], points[3])
        THEN last.status = InvalidFace /\ faces[last.face] = NoFace
        ELSE /\ last.status = Ok
             /\ faces[last.face] # NoFace
             /\ faces[last.face].points = points
             /\ faces[last.face].boundary = from_points(points[1], points[2], points[3])

\* create refused points that are collinear only once they are corrected
C1_Witness ==
  /\ last.op = "create"
  /\ last.status = InvalidFace
  /\ ~Collinear(last.args[1], last.args[2], last.args[3])

\* C2: in every reachable state, after calls that return an error included, the
\* three stored points are not collinear and the stored plane is the plane derived
\* from them in their stored order.
C2_PlaneInStep ==
  \A f \in Faces :
    faces[f] # NoFace =>
      /\ ~Collinear(faces[f].points[1], faces[f].points[2], faces[f].points[3])
      /\ faces[f].boundary
           = from_points(faces[f].points[1], faces[f].points[2], faces[f].points[3])

\* transform(M) and then transform(M^-1) on the same face, both successful
RoundTrip ==
  /\ last.op = "transform"
  /\ prev.op = "transform"
  /\ last.status = Ok
  /\ prev.status = Ok
  /\ IsInverse(last.args[1], prev.args[1])

\* C4 as claimed: for every invertible M for which both calls succeed, the round
\* trip leaves the points, in their order, and the plane at their values before
\* the first call, within the correction tolerance.
C4_RoundTripAnyMatrix ==
  RoundTrip =>
    /\ Near(faces[last.face].points, prev.pre.points)
    /\ faces[last.face].boundary.normal = prev.pre.boundary.normal

\* the correction step of the first call changed none of the transformed points
FirstCallExact ==
  \A i \in 1 .. 3 :
    correct(Apply(prev.args[1], prev.pre.points[i])) = Apply(prev.args[1], prev.pre.points[i])

\* C4 amended: when moreover the correction step of the first call alters none of
\* the transformed points, the round trip restores the points, in their order,
\* and the plane exactly.
C4_RoundTripExact ==
  (RoundTrip /\ FirstCallExact) =>
    /\ faces[last.face].points = prev.pre.points
    /\ faces[last.face].boundary = prev.pre.boundary

\* a round trip through a mirror: each call swapped the second and third point
C4_Witness ==
  /\ RoundTrip
  /\ FirstCallExact
  /\ last.args[1].lin[1][1] = -1
  /\ last.pre.points[2] = Apply(prev.args[1], prev.pre.points[3])
  /\ faces[last.face].points = prev.pre.points

UpdatedOk == last.op = "updatePointsFromVertices" /\ last.status = Ok

\* C8 as claimed: the points are set from the origins of the first half-edge and
\* of its two successors in next() order.
C8_FirstThreeVertices ==
  UpdatedOk =>
    LET b == boundaryOf(last.pre.geometry)
    IN  faces[last.face].points = Corrected(<<b[1], b[2], b[3]>>)

\* C8 amended: the points are set, after correction, from the origins of
\* first->next(), first and first->previous(), in that order, and the plane is
\* derived from them; the call returns "Brush has invalid face" exactly when
\* those three corrected vertices are collinear.
C8_NextFirstPrevious ==
  (last.op = "updatePointsFromVertices" /\ last.status # Abort) =>
    LET b      == boundaryOf(last.pre.geometry)
        points == Corrected(<<b[next(b, 1)], b[1], b[previous(b, 1)]>>)
    IN  /\ faces[last.face].points = points
        /\ IF Collinear(points[1], points[2], points[3])
           THEN last.status = InvalidFace
           ELSE /\ last.status = Ok
                /\ faces[last.face].boundary
                     = from_points(points[1], points[2], points[3])

\* the points were taken from a boundary of four vertices, the last of them included
C8_Witness ==
  /\ UpdatedOk
  /\ Len(boundaryOf(last.pre.geometry)) = 4
  /\ faces[last.face].points[3] = correct(boundaryOf(last.pre.geometry)[4])
  /\ faces[last.face].points # last.pre.points

-----------------------------------------------------------------------------
(* Copies, moves and swaps of faces, the UV coordinate system each owns, and
   the selection flag. *)

\* the copy constructor sharing the UV coordinate system of the face it copies
BrushFace_copy_shared(other, heap) ==
  [face |-> [other EXCEPT !.geometry = Null], heap |-> heap]

\* the copy constructor carrying the geometry over
BrushFace_copy_attached(other, heap) ==
  LET a == IF other.uvCoordSystem # Null THEN Alloc(heap, heap[other.uvCoordSystem])
           ELSE [heap |-> heap, id |-> Null]
  IN  [face |-> [other EXCEPT !.uvCoordSystem = a.id], heap |-> a.heap]

\* BrushFace::BrushFace(const BrushFace& other): [face, heap]; the UV coordinate
\* system is cloned, m_geometry keeps its default
BrushFace_copy(other, heap) ==
  LET a == IF other.uvCoordSystem # Null THEN Alloc(heap, heap[other.uvCoordSystem])
           ELSE [heap |-> heap, id |-> Null]
  IN  [face |-> [other EXCEPT !.uvCoordSystem = a.id, !.geometry = Null], heap |-> a.heap]

\* BrushFace::BrushFace(BrushFace&& other): [face, other], other being the face
\* moved from: its unique_ptr is left empty, m_geometry and m_selected are copied
BrushFace_move(other) ==
  [face |-> other, other |-> [other EXCEPT !.uvCoordSystem = Null]]

\* swap(BrushFace& lhs, BrushFace& rhs)
swap(lhs, rhs) == [lhs |-> rhs, rhs |-> lhs]

\* BrushFace::operator=(BrushFace other): swap with the parameter, which is then
\* destroyed
assign(this, other, heap) ==
  LET s == swap(this, other)
  IN  [face |-> s.lhs, heap |-> Release(heap, s.rhs.uvCoordSystem)]

\* BrushFace::convertToParaxial / convertToParallel: [face, heap]
convertTo(face, kind, heap) ==
  LET a == Alloc(heap, uvConvert(heap[face.uvCoordSystem], kind))
  IN  [face |-> [face EXCEPT !.uvCoordSystem = a.id],
       heap |-> Release(a.heap, face.uvCoordSystem)]

\* BrushFace::rotateUV: [face, uv]
rotateUV(face, uv, angle) ==
  [face |-> [face EXCEPT !.attributes.rotation = (face.attributes.rotation + angle) % 360],
   uv   |-> uvRotate(uv, angle)]

\* select without its assertion
select_unchecked(face, nd) ==
  [status |-> Ok, face |-> [face EXCEPT !.selected = TRUE]]

\* BrushFace::select; nd: the build defines NDEBUG, assert expands to nothing
select(face, nd) ==
  IF face.selected /\ ~nd THEN [status |-> Abort, face |-> face]
  ELSE [status |-> Ok, face |-> [face EXCEPT !.selected = TRUE]]

\* BrushFace::deselect
deselect(face, nd) ==
  IF ~face.selected /\ ~nd THEN [status |-> Abort, face |-> face]
  ELSE [status |-> Ok, face |-> [face EXCEPT !.selected = FALSE]]

\* the points the faces of this specification are created from
OwnTriples == { <<P(0, 0, 0), P(0, 1, 0), P(1, 0, 0)>> }

\* the boundaries the faces of this specification are attached to
OwnGeometry == {1}

CopyConstruct(f, g) ==
  /\ Running
  /\ faces[f] = NoFace
  /\ faces[g] # NoFace
  /\ LET r == BrushFace_copy(faces[g], uvHeap)
     IN  /\ faces' = [faces EXCEPT ![f] = r.face]
         /\ uvHeap' = r.heap
  /\ Record(Call("copyConstruct", f, g, <<>>, NoFace, Ok, <<>>, <<>>))
  /\ UNCHANGED ndebug

MoveConstruct(f, g) ==
  /\ Running
  /\ faces[f] = NoFace
  /\ faces[g] # NoFace
  /\ LET r == BrushFace_move(faces[g])
     IN  faces' = [faces EXCEPT ![f] = r.face, ![g] = r.other]
  /\ Record(Call("moveConstruct", f, g, <<>>, NoFace, Ok, <<>>, <<>>))
  /\ UNCHANGED <<uvHeap, ndebug>>

CopyAssign(f, g) ==
  /\ Running
  /\ f # g
  /\ faces[f] # NoFace
  /\ faces[g] # NoFace
  /\ LET c == BrushFace_copy(faces[g], uvHeap)
         a == assign(faces[f], c.face, c.heap)
     IN  /\ faces' = [faces EXCEPT ![f] = a.face]
         /\ uvHeap' = a.heap
  /\ Record(Call("copyAssign", f, g, <<>>, NoFace, Ok, <<>>, <<>>))
  /\ UNCHANGED ndebug

MoveAssign(f, g) ==
  /\ Running
  /\ f # g
  /\ faces[f] # NoFace
  /\ faces[g] # NoFace
  /\ LET m == BrushFace_move(faces[g])
         a == assign(faces[f], m.face, uvHeap)
     IN  /\ faces' = [faces EXCEPT ![f] = a.face, ![g] = m.other]
         /\ uvHeap' = a.heap
  /\ Record(Call("moveAssign", f, g, <<>>, NoFace, Ok, <<>>, <<>>))
  /\ UNCHANGED ndebug

Swap(f, g) ==
  /\ Running
  /\ f # g
  /\ faces[f] # NoFace
  /\ faces[g] # NoFace
  /\ LET s == swap(faces[f], faces[g])
     IN  faces' = [faces EXCEPT ![f] = s.lhs, ![g] = s.rhs]
  /\ Record(Call("swap", f, g, <<>>, NoFace, Ok, <<>>, <<>>))
  /\ UNCHANGED <<uvHeap, ndebug>>

\* ~BrushFace
Destroy(f) ==
  /\ Running
  /\ faces[f] # NoFace
  /\ faces' = [faces EXCEPT ![f] = NoFace]
  /\ uvHeap' = Release(uvHeap, faces[f].uvCoordSystem)
  /\ Record(Call("destroy", f, 0, <<>>, NoFace, Ok, <<>>, <<>>))
  /\ UNCHANGED ndebug

ConvertToParaxial(f) ==
  /\ Running
  /\ faces[f] # NoFace
  /\ faces[f].uvCoordSystem # Null
  /\ LET r == convertTo(faces[f], "paraxial", uvHeap)
     IN  /\ faces' = [faces EXCEPT ![f] = r.face]
         /\ uvHeap' = r.heap
  /\ Record(Call("convertToParaxial", f, 0, <<>>, NoFace, Ok, <<>>, <<>>))
  /\ UNCHANGED ndebug

ConvertToParallel(f) ==
  /\ Running
  /\ faces[f] # NoFace
  /\ faces[f].uvCoordSystem # Null
  /\ LET r == convertTo(faces[f], "parallel", uvHeap)
     IN  /\ faces' = [faces EXCEPT ![f] = r.face]
         /\ uvHeap' = r.heap
  /\ Record(Call("convertToParallel", f, 0, <<>>, NoFace, Ok, <<>>, <<>>))
  /\ UNCHANGED ndebug

RotateUV(f, angles) ==
  /\ Running
  /\ faces[f] # NoFace
  /\ faces[f].uvCoordSystem # Null
  /\ \E angle \in angles :
       LET r == rotateUV(faces[f], uvHeap[faces[f].uvCoordSystem], angle)
       IN  /\ faces' = [faces EXCEPT ![f] = r.face]
           /\ uvHeap' = [uvHeap EXCEPT ![faces[f].uvCoordSystem] = r.uv]
           /\ Record(Call("rotateUV", f, 0, <<angle>>, NoFace, Ok, <<>>, <<>>))
  /\ UNCHANGED ndebug

Select(f) ==
  /\ Running
  /\ faces[f] # NoFace
  /\ LET r == select(faces[f], ndebug)
     IN  /\ faces' = [faces EXCEPT ![f] = r.face]
         /\ Record(Call("select", f, 0, <<>>, faces[f], r.status, <<>>, <<>>))
  /\ UNCHANGED <<uvHeap, ndebug>>

Deselect(f) ==
  /\ Running
  /\ faces[f] # NoFace
  /\ LET r == deselect(faces[f], ndebug)
     IN  /\ faces' = [faces EXCEPT ![f] = r.face]
         /\ Record(Call("deselect", f, 0, <<>>, faces[f], r.status, <<>>, <<>>))
  /\ UNCHANGED <<uvHeap, ndebug>>

\* the build is with or without NDEBUG
InitAnyBuild ==
  /\ faces = [f \in Faces |-> NoFace]
  /\ uvHeap = [i \in UvIds |-> Free]
  /\ last = NoCall
  /\ prev = NoCall
  /\ nops = 0
  /\ ndebug \in BOOLEAN

NextOwn ==
  \E f \in Faces :
    \/ Untimed /\ Create(f, OwnTriples)
    \/ Untimed /\ Destroy(f)
    \/ Untimed /\ ConvertToParaxial(f)
    \/ Untimed /\ ConvertToParallel(f)
    \/ Untimed /\ RotateUV(f, {180})
    \/ \E g \in Faces :
         \/ Untimed /\ CopyConstruct(f, g)
         \/ Untimed /\ MoveConstruct(f, g)
         \/ Untimed /\ CopyAssign(f, g)
         \/ Untimed /\ MoveAssign(f, g)
         \/ Untimed /\ Swap(f, g)

SpecOwn == Init /\ [][NextOwn]_vars

NextAttach ==
  \E f \in Faces :
    \/ Untimed /\ Create(f, OwnTriples)
    \/ Untimed /\ Destroy(f)
    \/ Untimed /\ SetGeometry(f, OwnGeometry)
    \/ \E g \in Faces :
         \/ Untimed /\ CopyConstruct(f, g)
         \/ Untimed /\ MoveConstruct(f, g)
         \/ Untimed /\ CopyAssign(f, g)
         \/ Untimed /\ MoveAssign(f, g)
         \/ Untimed /\ Swap(f, g)

SpecAttach == Init /\ [][NextAttach]_vars

NextCreate ==
  \/ Untimed /\ Create(1, InputTriples)
  \/ Untimed /\ Invert(1)
  \/ Untimed /\ Destroy(1)

SpecCreate == Init /\ [][NextCreate]_vars

-----------------------------------------------------------------------------
(* Properties of the ownership of the UV coordinate systems, of the geometry
   back-reference and of the selection flag. *)

Live(fs, f) == fs[f] # NoFace

HasNoUV(fs, f) == Live(fs, f) /\ fs[f].uvCoordSystem = Null

Attached(fs, f) == Live(fs, f) /\ fs[f].geometry # Null

\* C3 as claimed: every face has a UV coordinate system, and none is referenced
\* by two faces.
C3_NeverNullNeverShared ==
  \A f \in Faces :
    Live(faces, f) =>
      /\ faces[f].uvCoordSystem # Null
      /\ \A g \in Faces \ {f} :
           Live(faces, g) => faces[g].uvCoordSystem # faces[f].uvCoordSystem

\* a UV coordinate system a face refers to exists and no other face refers to it;
\* every UV coordinate system that exists is referred to by a face
ExclusivelyOwned ==
  /\ \A f \in Faces :
       (Live(faces, f) /\ ~HasNoUV(faces, f)) =>
         /\ uvHeap[faces[f].uvCoordSystem] # Free
         /\ \A g \in Faces \ {f} :
              Live(faces, g) => faces[g].uvCoordSystem # faces[f].uvCoordSystem
  /\ \A i \in UvIds :
       uvHeap[i] # Free => \E f \in Faces : Live(faces, f) /\ faces[f].uvCoordSystem = i

\* a face comes to be without a UV coordinate system only by being moved from, or
\* by being copied, moved, assigned or swapped from a face that is without one
NullOnlyFromMove ==
  \A f \in Faces :
    (HasNoUV(faces', f) /\ ~HasNoUV(faces, f)) =>
      \/ last'.op \in {"moveConstruct", "moveAssign"} /\ last'.other = f
      \/ /\ last'.op \in {"copyConstruct", "copyAssign", "moveConstruct", "moveAssign", "swap"}
         /\ last'.face = f
         /\ HasNoUV(faces, last'.other)
      \/ last'.op = "swap" /\ last'.other = f /\ HasNoUV(faces, last'.face)

\* a copy gets a clone of the UV coordinate system of the face it copies
CopyClones ==
  (last'.op \in {"copyConstruct", "copyAssign"} /\ ~HasNoUV(faces, last'.other)) =>
    /\ faces'[last'.face].uvCoordSystem \notin {Null, faces'[last'.other].uvCoordSystem}
    /\ uvHeap'[faces'[last'.face].uvCoordSystem] = uvHeap[faces[last'.other].uvCoordSystem]
    /\ faces'[last'.other] = faces[last'.other]
    /\ uvHeap'[faces'[last'.other].uvCoordSystem] = uvHeap[faces[last'.other].uvCoordSystem]

\* editing the UV coordinate system of a face changes that of no other face
EditIsLocal ==
  last'.op = "rotateUV" =>
    \A g \in Faces \ {last'.face} :
      /\ faces'[g] = faces[g]
      /\ (Live(faces, g) /\ ~HasNoUV(faces, g)) =>
           uvHeap'[faces'[g].uvCoordSystem] = uvHeap[faces[g].uvCoordSystem]

\* C3 amended: after any sequence of these operations no UV coordinate system is
\* referenced by two faces and each face's UV coordinate system, if it has one,
\* exists; a copy gets its own clone, and editing the UV coordinate system of one
\* face changes that of no other; a face is without a UV coordinate system only
\* if it was moved from (by move construction or move assignment) or was copied,
\* moved, assigned or swapped from such a face.
C3_OwnedUnlessMovedFrom ==
  []ExclusivelyOwned /\ [][NullOnlyFromMove /\ CopyClones /\ EditIsLocal]_vars

\* the UV coordinate system of a copy was edited and differs from the original's
C3_Witness ==
  /\ last.op = "rotateUV"
  /\ \E g \in Faces \ {last.face} :
       /\ Live(faces, g)
       /\ ~HasNoUV(faces, g)
       /\ faces[g].points = faces[last.face].points
       /\ uvHeap[faces[g].uvCoordSystem].kind = uvHeap[faces[last.face].uvCoordSystem].kind
       /\ uvHeap[faces[g].uvCoordSystem] # uvHeap[faces[last.face].uvCoordSystem]

\* C5 as claimed: a select of a selected face, or a deselect of an unselected
\* one, is always an assertion failure and never accepted.
C5_StrictToggle ==
  /\ (last.op = "select" /\ last.pre.selected) => last.status = Abort
  /\ (last.op = "deselect" /\ ~last.pre.selected) => last.status = Abort

\* C5 amended: select of an unselected face sets the flag and deselect of a
\* selected face clears it, changing nothing else; in a build with assertions
\* enabled, a select of a selected face or a deselect of an unselected one is an
\* assertion failure that changes nothing; in a build with NDEBUG it is accepted
\* and leaves the flag as it was.
C5_ToggleWhenAsserting ==
  /\ last.op = "select" =>
       IF last.pre.selected /\ ~ndebug
       THEN last.status = Abort /\ faces[last.face] = last.pre
       ELSE last.status = Ok /\ faces[last.face] = [last.pre EXCEPT !.selected = TRUE]
  /\ last.op = "deselect" =>
       IF ~last.pre.selected /\ ~ndebug
       THEN last.status = Abort /\ faces[last.face] = last.pre
       ELSE last.status = Ok /\ faces[last.face] = [last.pre EXCEPT !.selected = FALSE]

\* a second select without a deselect between, in a build with assertions
C5_Witness ==
  /\ last.op = "select"
  /\ last.pre.selected
  /\ ~ndebug
  /\ last.status = Abort

\* a copy is detached and leaves its source as it was; a face becomes attached
\* only through setGeometry, a move or a swap
C7_Step ==
  /\ last'.op \in {"copyConstruct", "copyAssign"} =>
       /\ faces'[last'.face].geometry = Null
       /\ faces'[last'.other] = faces[last'.other]
  /\ \A f \in Faces :
       (Attached(faces', f) /\ ~Attached(faces, f)) =>
         \/ last'.op \in {"setGeometry", "moveConstruct", "moveAssign"} /\ last'.face = f
         \/ last'.op = "swap" /\ f \in {last'.face, last'.other}

-----------------------------------------------------------------------------
(* The queries on the geometry of a face. *)

\* the whole part of the square root of n >= 0, searched between lo and hi
RECURSIVE ISqrtIn(_, _, _)
ISqrtIn(n, lo, hi) ==
  IF lo >= hi THEN lo
  ELSE LET mid == (lo + hi + 1) \div 2
       IN  IF mid <= n \div mid THEN ISqrtIn(n, mid, hi) ELSE ISqrtIn(n, lo, mid - 1)

\* vm::length, to the whole unit below; exact for a multiple of a unit vector
Length(a) ==
  IF a = Zero3 THEN 0
  ELSE Gcd3(a) * ISqrtIn(Dot(Normalize(a), Normalize(a)), 1, Dot(Normalize(a), Normalize(a)))

\* BrushFace::boundsCenter, for a boundary plane normal to a coordinate axis, whose
\* projection axes are coordinate axes: the centre of the bounding box
RECURSIVE boundsOf(_, _)
boundsOf(b, k) ==
  IF k = 1 THEN [min |-> b[1], max |-> b[1]]
  ELSE LET r == boundsOf(b, k - 1)
       IN  [min |-> [i \in 1 .. 3 |-> IF b[k][i] < r.min[i] THEN b[k][i] ELSE r.min[i]],
            max |-> [i \in 1 .. 3 |-> IF b[k][i] > r.max[i] THEN b[k][i] ELSE r.max[i]]]

boundsCenter(face) ==
  LET b == boundaryOf(face.geometry)
      r == boundsOf(b, Len(b))
  IN  RPoint(VAdd(r.min, r.max), 2)

\* vm::swizzle
swizzle(point, axis) ==
  IF axis = 1 THEN <<point[2], point[3], point[1]>>
  ELSE IF axis = 2 THEN <<point[3], point[1], point[2]>>
  ELSE point

\* the sums c1 and c2 of projectedArea over the first k half-edges
RECURSIVE projectedSums(_, _, _)
projectedSums(b, axis, k) ==
  IF k = 0 THEN [c1 |-> 0, c2 |-> 0]
  ELSE LET r           == projectedSums(b, axis, k - 1)
           origin      == swizzle(b[k], axis)
           destination == swizzle(b[next(b, k)], axis)
       IN  [c1 |-> r.c1 + origin[1] * destination[2],
            c2 |-> r.c2 + origin[2] * destination[1]]

\* BrushFace::projectedArea
projectedArea(face, axis) ==
  LET b == boundaryOf(face.geometry)
      r == projectedSums(b, axis, Len(b))
  IN  Ratio(Abs(r.c1 - r.c2), 2)

\* the do-while loop of area from currentEdge on: [result, visits], visits being
\* the number of times the body ran
RECURSIVE areaLoop(_, _, _, _)
areaLoop(b, currentEdge, result, visits) ==
  LET firstEdge == 1
      vertex0   == b[firstEdge]
      vertex1   == b[currentEdge]
      vertex2   == b[next(b, currentEdge)]
      side0     == VSub(vertex1, vertex0)
      side1     == VSub(vertex2, vertex0)
      sum       == result + Length(Cross(side0, side1))
  IN  IF next(b, next(b, currentEdge)) # firstEdge
      THEN areaLoop(b, next(b, currentEdge), sum, visits + 1)
      ELSE [result |-> sum, visits |-> visits + 1]

\* area returning the sum of the loop without halving it
area_unhalved(face) ==
  LET b == boundaryOf(face.geometry)
  IN  Ratio(areaLoop(b, next(b, 1), 0, 0).result, 1)

\* BrushFace::area
area(face) ==
  LET b == boundaryOf(face.geometry)
  IN  Ratio(areaLoop(b, next(b, 1), 0, 0).result, 2)

\* vm::constants<double>::almost_zero
AlmostZero == CorrectEpsilon

\* BrushFace::coplanarWith
coplanarWith(face, plane) ==
  LET c == center(face)
      x == Dot(c.num, plane.normal) * plane.den - plane.num * c.den
  IN  IF Abs(x) > AlmostZero * 10 * c.den * plane.den * Length(plane.normal) THEN FALSE
      ELSE Normalize(face.boundary.normal) = Normalize(plane.normal)

\* BrushFaceGeometry::hasVertexPositions: each position is within epsilon of a
\* vertex and the counts agree
hasVertices(face, vertices, epsilon) ==
  LET b == boundaryOf(face.geometry)
  IN  /\ Len(b) = Len(vertices)
      /\ \A i \in 1 .. Len(vertices) :
           \E j \in 1 .. Len(b) :
             \A k \in 1 .. 3 : Abs(vertices[i][k] - b[j][k]) <= epsilon

\* BrushFace::intersectWithRay: no hit for a ray that does not face the boundary
\* plane; otherwise whatever vm::intersect_ray_polygon finds
intersectWithRay(face, ray) ==
  IF Dot(face.boundary.normal, ray.direction) < 0
  THEN [nullopt |-> FALSE, from |-> "intersect_ray_polygon"]
  ELSE [nullopt |-> TRUE, from |-> "culled"]

\* the queries of the action Query
Queries ==
  {"center", "boundsCenter", "projectedArea", "area", "coplanarWith", "vertexCount",
   "vertexPositions", "hasVertices", "polygon", "intersectWithRay"}

\* how a query checks m_geometry before it reads the boundary: with ensure, with
\* assert, or not at all
nullCheck(q) ==
  IF q \in {"area", "projectedArea"} THEN "none"
  ELSE IF q = "vertexCount" THEN "assert"
  ELSE "ensure"

\* the outcomes of a query on a face without geometry: the abort of a failed
\* check, or the read through the null pointer
onNull(q, nd) ==
  IF nullCheck(q) = "ensure" \/ (nullCheck(q) = "assert" /\ ~nd) THEN {Abort}
  ELSE {Crash, Garbage}

\* the arguments a caller passes to a query
QueryArgs(q, face) ==
  IF q = "projectedArea" THEN {<<1>>, <<2>>, <<3>>}
  ELSE IF q = "coplanarWith"
  THEN {<<face.boundary>>, <<PlaneFlip(face.boundary)>>, <<PlaneAt(P(0, 0, 1), <<0, 0, 1>>)>>}
  ELSE IF q = "hasVertices" THEN {<<Boundaries[1], AlmostZero>>, <<Square, AlmostZero>>}
  ELSE IF q = "intersectWithRay"
  THEN {<<[origin |-> P(0, 0, 2), direction |-> <<0, 0, -1>>]>>,
        <<[origin |-> P(0, 0, 2), direction |-> <<0, 0, 1>>]>>}
  ELSE {<<>>}

\* what a query returns for an attached face
Result(q, face, args) ==
  IF q = "center" THEN center(face)
  ELSE IF q = "boundsCenter" THEN boundsCenter(face)
  ELSE IF q = "projectedArea" THEN projectedArea(face, args[1])
  ELSE IF q = "area" THEN area(face)
  ELSE IF q = "coplanarWith" THEN coplanarWith(face, args[1])
  ELSE IF q = "vertexCount" THEN Len(boundaryOf(face.geometry))
  ELSE IF q = "hasVertices" THEN hasVertices(face, args[1], args[2])
  ELSE IF q = "intersectWithRay" THEN intersectWithRay(face, args[1])
  ELSE boundaryOf(face.geometry)

Query(f) ==
  /\ Running
  /\ faces[f] # NoFace
  /\ \E q \in Queries :
       \E args \in QueryArgs(q, faces[f]) :
         IF faces[f].geometry = Null
         THEN \E status \in onNull(q, ndebug) :
                Record(Call(q, f, 0, args, faces[f], status, <<>>, <<>>))
         ELSE Record(Call(q, f, 0, args, faces[f], Ok, <<Result(q, faces[f], args)>>, <<>>))
  /\ UNCHANGED <<faces, uvHeap, ndebug>>

\* the boundaries the faces of this specification are attached to: those with
\* whole coordinates
QueryGeometry == GeometryIds \ {4}

NextQuery ==
  \/ Untimed /\ Create(1, OwnTriples)
  \/ Untimed /\ SetGeometry(1, QueryGeometry)
  \/ Untimed /\ Query(1)
  \/ Untimed /\ Select(1)
  \/ Untimed /\ Deselect(1)

SpecQuery == InitAnyBuild /\ [][NextQuery]_vars

-----------------------------------------------------------------------------
(* Properties of the queries on the geometry. *)

\* C6: every query on the geometry of a face whose geometry back-reference is
\* null ends in the contract-violation abort, with no result and no state changed.
C6_NullGeometryAborts ==
  (last.op \in Queries /\ last.pre.geometry = Null) =>
    /\ last.status = Abort
    /\ last.out = <<>>
    /\ faces[last.face] = last.pre

\* the boundary lies in a plane z = constant
Flat(b) == \A i \in 1 .. Len(b) : b[i][3] = b[1][3]

\* the z component of the cross product of the edges that meet at vertex i
TurnAt(b, i) ==
  Cross(VSub(b[i], b[previous(b, i)]), VSub(b[next(b, i)], b[i]))[3]

\* a flat simple polygon is convex when it turns the same way at every vertex
IsConvex(b) ==
  \/ \A i \in 1 .. Len(b) : TurnAt(b, i) >= 0
  \/ \A i \in 1 .. Len(b) : TurnAt(b, i) <= 0

\* twice the signed area of a flat polygon, by the shoelace formula
RECURSIVE Shoelace(_, _)
Shoelace(b, k) ==
  IF k = 0 THEN 0
  ELSE Shoelace(b, k - 1) + b[k][1] * b[next(b, k)][2] - b[next(b, k)][1] * b[k][2]

\* the area of a flat simple polygon
TrueArea(b) == Ratio(Abs(Shoelace(b, Len(b))), 2)

\* the boundary of the face that area was called on
AreaBoundary == boundaryOf(last.pre.geometry)

AreaCalled == last.op = "area" /\ last.status = Ok /\ Flat(AreaBoundary)

\* the same cycle of half-edges with another front()
SameCycle(b, c) == Len(b) = Len(c) /\ \E k \in 0 .. (Len(b) - 1) : c = Rotate(b, k)

\* C9 as claimed: area is the true area of every simple planar polygon, convex or
\* concave, whichever half-edge is first.
C9_ExactForAnyPolygon ==
  AreaCalled =>
    /\ last.out[1] = TrueArea(AreaBoundary)
    /\ \A g \in QueryGeometry :
         SameCycle(AreaBoundary, boundaryOf(g)) =>
           area([last.pre EXCEPT !.geometry = g]) = last.out[1]

\* C9 amended: for a boundary of n >= 3 vertices the fan loop visits exactly n - 2
\* triangles and terminates; for a convex planar polygon area is the true area,
\* whichever half-edge is first, and the unit square has area 1; for a concave
\* polygon area is at least the true area.
C9_ExactForConvex ==
  AreaCalled =>
    /\ areaLoop(AreaBoundary, next(AreaBoundary, 1), 0, 0).visits = Len(AreaBoundary) - 2
    /\ last.out[1].num * TrueArea(AreaBoundary).den
         >= TrueArea(AreaBoundary).num * last.out[1].den
    /\ IsConvex(AreaBoundary) =>
         /\ last.out[1] = TrueArea(AreaBoundary)
         /\ \A g \in QueryGeometry :
              SameCycle(AreaBoundary, boundaryOf(g)) =>
                area([last.pre EXCEPT !.geometry = g]) = last.out[1]
    /\ SameCycle(AreaBoundary, Square) => last.out[1] = Ratio(Unit * Unit, 1)

\* area of the convex pentagon, with another half-edge first than the one listed
C9_Witness ==
  /\ AreaCalled
  /\ SameCycle(AreaBoundary, Pentagon)
  /\ AreaBoundary # Pentagon
  /\ last.out[1] = Ratio(5 * Unit * Unit, 1)

-----------------------------------------------------------------------------
(* The attributes of a face and its UV coordinate system: setAttributes,
   rotateUV, flipUV. *)

\* BrushFace::setAttributes(const BrushFaceAttributes&): [face, uv]; the axes turn
\* by the change of the rotation
setAttributes(face, uv, attributes) ==
  [face |-> [face EXCEPT !.attributes = attributes],
   uv   |-> uvRotate(uv, (attributes.rotation - face.attributes.rotation + 360) % 360)]

\* the square of the cosine of the angle between the line of an axis and the
\* camera's right vector, as the pair <<dot^2, |axis|^2>>
CloserTo(vAxis, uAxis, cameraRight) ==
  Dot(vAxis, cameraRight) * Dot(vAxis, cameraRight) * Dot(uAxis, uAxis)
    > Dot(uAxis, cameraRight) * Dot(uAxis, cameraRight) * Dot(vAxis, vAxis)

\* flipUV choosing the axis by the sign of the scale it is about to negate
flipUV_byScale(face, uv, cameraRight, cameraRelativeFlipDirection) ==
  LET texUAxisInWorld == Normalize(uv.uAxis)
      texVAxisInWorld == Normalize(uv.vAxis)
      cameraRightCloserToV == CloserTo(texVAxisInWorld, texUAxisInWorld, cameraRight)
      leftOrRight == cameraRelativeFlipDirection \in {"left", "right"}
      flipUAxis == IF cameraRightCloserToV = (face.attributes.xScale > 0)
                   THEN ~leftOrRight ELSE leftOrRight
  IN  IF flipUAxis
      THEN [face EXCEPT !.attributes.xScale = -1 * face.attributes.xScale]
      ELSE [face EXCEPT !.attributes.yScale = -1 * face.attributes.yScale]

\* BrushFace::flipUV; the texture axes in the world, taken from the matrix for
\* offset 0 and scale 1, are the directions of the U and V axes
flipUV(face, uv, cameraRight, cameraRelativeFlipDirection) ==
  LET texUAxisInWorld == Normalize(uv.uAxis)
      texVAxisInWorld == Normalize(uv.vAxis)
      cameraRightCloserToV == CloserTo(texVAxisInWorld, texUAxisInWorld, cameraRight)
      leftOrRight == cameraRelativeFlipDirection \in {"left", "right"}
      flipUAxis == IF cameraRightCloserToV THEN ~leftOrRight ELSE leftOrRight
  IN  IF flipUAxis
      THEN [face EXCEPT !.attributes.xScale = -1 * face.attributes.xScale]
      ELSE [face EXCEPT !.attributes.yScale = -1 * face.attributes.yScale]

\* the scales a caller sets
Scales == {1, -2}

\* the attributes a caller passes to setAttributes
InputAttributes ==
  { [Attributes("m") EXCEPT !.xScale = xs, !.yScale = ys] : xs \in Scales, ys \in Scales }

\* the camera's right vectors a caller passes to flipUV: along an axis of the
\* face's plane, closer to the other axis, and halfway between the two
CameraRights == { <<1, 0, 0>>, <<1, 2, 0>>, <<1, 1, 0>> }

\* the values of vm::direction a caller passes to flipUV
Directions == {"left", "right", "up"}

SetAttributes(f, inputs) ==
  /\ Running
  /\ faces[f] # NoFace
  /\ faces[f].uvCoordSystem # Null
  /\ \E attributes \in inputs :
       LET r == setAttributes(faces[f], uvHeap[faces[f].uvCoordSystem], attributes)
       IN  /\ faces' = [faces EXCEPT ![f] = r.face]
           /\ uvHeap' = [uvHeap EXCEPT ![faces[f].uvCoordSystem] = r.uv]
           /\ Record(Call("setAttributes", f, 0, <<attributes>>, NoFace, Ok, <<>>, <<>>))
  /\ UNCHANGED ndebug

FlipUV(f) ==
  /\ Running
  /\ faces[f] # NoFace
  /\ faces[f].uvCoordSystem # Null
  /\ \E cameraRight \in CameraRights, direction \in Directions :
       /\ faces' = [faces EXCEPT
                      ![f] = flipUV(faces[f], uvHeap[faces[f].uvCoordSystem], cameraRight,
                                    direction)]
       /\ Record(Call("flipUV", f, 0, <<cameraRight, direction>>, faces[f], Ok,
                      <<uvHeap[faces[f].uvCoordSystem]>>, <<>>))
  /\ UNCHANGED <<uvHeap, ndebug>>

\* a call of a run of any length, of which the last two calls are remembered
Chained == prev' = last /\ UNCHANGED nops

NextUV ==
  \/ Chained /\ Create(1, OwnTriples)
  \/ Chained /\ SetAttributes(1, InputAttributes)
  \/ Chained /\ RotateUV(1, {90})
  \/ Chained /\ FlipUV(1)

SpecUV == Init /\ [][NextUV]_vars

\* flipUV was called twice in a row with the same arguments
FlippedTwice ==
  /\ last.op = "flipUV"
  /\ prev.op = "flipUV"
  /\ last.args = prev.args

\* C10: flipUV called twice with the same camera-right vector and flip direction
\* leaves xScale and yScale at their values before the first call: each call
\* negates exactly one of the two scales, both calls the same one, and changes no
\* other attribute, no other member of the face and nothing of the UV system.
C10_FlipTwiceRestores ==
  /\ FlippedTwice =>
       /\ faces[last.face] = prev.pre
       /\ (last.pre.attributes.xScale # prev.pre.attributes.xScale)
            = (last.pre.attributes.yScale = prev.pre.attributes.yScale)
  /\ last.op = "flipUV" =>
       /\ uvHeap[faces[last.face].uvCoordSystem] = last.out[1]
       /\ \/ faces[last.face]
               = [last.pre EXCEPT !.attributes.xScale = -1 * last.pre.attributes.xScale]
          \/ faces[last.face]
               = [last.pre EXCEPT !.attributes.yScale = -1 * last.pre.attributes.yScale]

\* two flips of the V axis of a face of unequal scales, the camera's right vector
\* being closer to the V axis
C10_Witness ==
  /\ FlippedTwice
  /\ last.args[2] = "left"
  /\ last.pre.attributes.yScale = -1 * prev.pre.attributes.yScale
  /\ prev.pre.attributes.xScale # prev.pre.attributes.yScale
  /\ prev.pre.attributes.xScale < 0
  /\ faces[last.face].attributes = prev.pre.attributes

-----------------------------------------------------------------------------
(* sortFaces: the order in which the faces are added to a brush. *)

\* the sign of a / sqrt(aa) - b / sqrt(bb), for aa, bb > 0
CompareOverRoot(a, aa, b, bb) ==
  IF a >= 0 /\ b >= 0
  THEN (IF a * a * bb < b * b * aa THEN -1 ELSE IF a * a * bb > b * b * aa THEN 1 ELSE 0)
  ELSE IF a < 0 /\ b < 0
  THEN (IF a * a * bb > b * b * aa THEN -1 ELSE IF a * a * bb < b * b * aa THEN 1 ELSE 0)
  ELSE IF a < b THEN -1 ELSE 1

\* vm::compare(lhs, rhs) of two unit vectors, given by their directions: the
\* first coordinate that differs decides
RECURSIVE compareFrom(_, _, _)
compareFrom(lhs, rhs, i) ==
  IF i > 3 THEN 0
  ELSE LET c == CompareOverRoot(lhs[i], Dot(lhs, lhs), rhs[i], Dot(rhs, rhs))
       IN  IF c # 0 THEN c ELSE compareFrom(lhs, rhs, i + 1)

compare(lhs, rhs) == compareFrom(lhs, rhs, 1)

\* the comparator comparing the first coordinate of the normals only
less_firstCoordinate(lhs, rhs) ==
  LET lhsBoundary == lhs.boundary
      rhsBoundary == rhs.boundary
      cmp == CompareOverRoot(lhsBoundary.normal[1],
                             Dot(lhsBoundary.normal, lhsBoundary.normal),
                             rhsBoundary.normal[1],
                             Dot(rhsBoundary.normal, rhsBoundary.normal))
  IN  IF cmp < 0 THEN TRUE
      ELSE IF cmp > 0 THEN FALSE
      ELSE lhsBoundary.num * rhsBoundary.den < rhsBoundary.num * lhsBoundary.den

\* the comparator of sortFaces; when the normals compare equal they are the same
\* direction, and the distances compare as num / den
less(lhs, rhs) ==
  LET lhsBoundary == lhs.boundary
      rhsBoundary == rhs.boundary
      cmp == compare(lhsBoundary.normal, rhsBoundary.normal)
  IN  IF cmp < 0 THEN TRUE
      ELSE IF cmp > 0 THEN FALSE
      ELSE lhsBoundary.num * rhsBoundary.den < rhsBoundary.num * lhsBoundary.den

\* the orders of the elements of a list
Orders(list) ==
  { [i \in 1 .. Len(list) |-> list[p[i]]] :
      p \in { q \in [1 .. Len(list) -> 1 .. Len(list)] :
                \A i, j \in 1 .. Len(list) : i # j => q[i] # q[j] } }

\* BrushFace::sortFaces: the orders std::sort can leave the vector in, which are
\* the orders of its elements in which no face is less than one before it
sortFaces(list) ==
  { r \in Orders(list) :
      \A i, j \in 1 .. Len(r) : i < j => ~less(r[j], r[i]) }

\* the longest vector passed to sortFaces
MaxList == 3

\* the faces of the vectors: normals along and between the axes, two parallel
\* planes, and two faces of one plane that differ in their material
SortFaces_Candidates ==
  { create(P(0, 0, 0), P(0, 1, 0), P(1, 0, 0), Attributes("a"), 1).face,
    create(P(0, 0, 1), P(0, 1, 1), P(1, 0, 1), Attributes("a"), 2).face,
    create(P(0, 0, 0), P(1, 0, 0), P(0, 1, 0), Attributes("a"), 3).face,
    create(P(0, 0, 0), P(0, 0, 1), P(0, 1, 0), Attributes("a"), 4).face,
    create(P(1, 0, 0), P(0, 0, 1), P(0, 1, 0), Attributes("a"), 5).face,
    create(P(0, 0, 0), P(0, 1, 0), P(1, 0, 0), Attributes("b"), 6).face,
    create(P(0, 0, 0), P(1, 0, 0), P(0, 0, 1), Attributes("a"), 7).face }

\* the vectors passed to sortFaces: up to MaxList faces, each face once
InputLists ==
  UNION { { list \in [1 .. n -> SortFaces_Candidates] :
              \A i, j \in 1 .. n : i # j => list[i] # list[j] } : n \in 1 .. MaxList }

\* a vector of faces a caller holds, before it is passed to sortFaces
InitSort ==
  /\ faces = [f \in Faces |-> NoFace]
  /\ uvHeap = [i \in UvIds |-> Free]
  /\ \E list \in InputLists : last = Call("faces", 0, 0, <<list>>, NoFace, Ok, <<>>, <<>>)
  /\ prev = NoCall
  /\ nops = 0
  /\ ndebug = FALSE

\* sortFaces on the vector the caller holds: the one it started with, or the one
\* the sort before has left
SortFaces ==
  /\ Running
  /\ last.op \in {"faces", "sortFaces"}
  /\ LET list == IF last.op = "faces" THEN last.args[1] ELSE last.out[1]
     IN  \E result \in sortFaces(list) :
           Record(Call("sortFaces", 0, 0, <<list>>, NoFace, Ok, <<result>>, <<>>))
  /\ UNCHANGED <<faces, uvHeap, ndebug>>

NextSort ==
  \/ Untimed /\ SortFaces

SpecSort == InitSort /\ [][NextSort]_vars

\* the normals of the faces of the list are pairwise distinct
DistinctNormals(list) ==
  \A i, j \in 1 .. Len(list) :
    i # j => Normalize(list[i].boundary.normal) # Normalize(list[j].boundary.normal)

\* neither face is less than the other
Equivalent(a, b) == ~less(a, b) /\ ~less(b, a)

\* less is a strict weak order on the faces of the set
StrictWeakOrder(S) ==
  /\ \A a \in S : ~less(a, a)
  /\ \A a, b, c \in S : (less(a, b) /\ less(b, c)) => less(a, c)
  /\ \A a, b, c \in S : (Equivalent(a, b) /\ Equivalent(b, c)) => Equivalent(a, c)

\* C11: for a list of faces whose plane normals are pairwise distinct, sortFaces
\* leaves the same sequence whatever the order of the input; the comparator is a
\* strict weak order on the faces.
C11_SortIsDeterministic ==
  last.op = "sortFaces" =>
    LET list == last.args[1]
    IN  /\ StrictWeakOrder({ list[i] : i \in 1 .. Len(list) })
        /\ DistinctNormals(list) =>
             \A q \in Orders(list) : sortFaces(q) = {last.out[1]}

\* three faces of distinct normals, two of which share the first coordinate of
\* the normal, were passed in an order that sortFaces changed
C11_Witness ==
  /\ last.op = "sortFaces"
  /\ Len(last.args[1]) = 3
  /\ DistinctNormals(last.args[1])
  /\ last.args[1][1].boundary.normal[1] = last.args[1][2].boundary.normal[1]
  /\ last.out[1] # last.args[1]
  /\ less(last.out[1][1], last.out[1][2])
  /\ less(last.out[1][2], last.out[1][3])

-----------------------------------------------------------------------------
(* setAttributes(const BrushFace&): the attributes of one face taken over by
   another. *)

\* BrushFace::setAttributes(const BrushFace& other): [face, result]; each setter
\* of BrushFaceAttributes assigns its field and returns whether the value changed
setAttributes_other(face, other) ==
  LET new == [face.attributes EXCEPT
                !.materialName    = other.attributes.materialName,
                !.xOffset         = other.attributes.xOffset,
                !.yOffset         = other.attributes.yOffset,
                !.rotation        = other.attributes.rotation,
                !.xScale          = other.attributes.xScale,
                !.yScale          = other.attributes.yScale,
                !.surfaceContents = other.attributes.surfaceContents,
                !.surfaceFlags    = other.attributes.surfaceFlags,
                !.surfaceValue    = other.attributes.surfaceValue]
  IN  [face |-> [face EXCEPT !.attributes = new], result |-> new # face.attributes]

\* the attributes a caller gives the faces: defaults, a color override, surface
\* attributes, and another material with other offsets and scales
MergeAttributes ==
  { Attributes("m"),
    [Attributes("m") EXCEPT !.color = <<1>>],
    [Attributes("m") EXCEPT !.surfaceContents = <<8>>, !.color = <<2>>],
    [Attributes("m") EXCEPT !.surfaceFlags = <<0>>, !.surfaceValue = <<3>>],
    [Attributes("n") EXCEPT !.xOffset = 1, !.yOffset = 1, !.xScale = 2, !.yScale = -1] }

SetAttributesFrom(f, g) ==
  /\ Running
  /\ faces[f] # NoFace
  /\ faces[g] # NoFace
  /\ LET r == setAttributes_other(faces[f], faces[g])
     IN  /\ faces' = [faces EXCEPT ![f] = r.face]
         /\ Record(Call("setAttributes(other)", f, g, <<>>, faces[f], Ok, <<r.result>>, <<>>))
  /\ UNCHANGED <<uvHeap, ndebug>>

NextMerge ==
  \E f \in {1, 2} :
    \/ Untimed /\ Create(f, OwnTriples)
    \/ Untimed /\ SetAttributes(f, MergeAttributes)
    \/ \E g \in {1, 2} : Untimed /\ SetAttributesFrom(f, g)

SpecMerge == Init /\ [][NextMerge]_vars

\* C12: after setAttributes(other) every attribute of this face, the color
\* override included, equals the other face's, and the call returns true exactly
\* when an attribute of this face changed.
C12_MergesEveryField ==
  last.op = "setAttributes(other)" =>
    /\ faces[last.face].attributes = faces[last.other].attributes
    /\ last.out[1] = (faces[last.face].attributes # last.pre.attributes)


-----------------------------------------------------------------------------
(* The surface data of a face: the surface contents, flags and value its
   attributes set, and the defaults the texture of its material embeds. *)

\* the width of the significand of a float
FloatDigits == 24

RECURSIVE Pow2(_)
Pow2(k) == IF k = 0 THEN 1 ELSE 2 * Pow2(k - 1)

\* float(value) of an int: the nearest float, of two equally near ones the one
\* with an even significand
float(value) ==
  LET a    == Abs(value)
      k    == CHOOSE e \in 0..7 : a < Pow2(FloatDigits + e) /\ (e = 0 \/ a >= Pow2(FloatDigits + e - 1))
      step == Pow2(k)
      q    == a \div step
      r    == a % step
      up   == 2 * r > step \/ (2 * r = step /\ q % 2 = 1)
      m    == (IF up THEN q + 1 ELSE q) * step
  IN  IF value < 0 THEN -m ELSE m

\* the embedded defaults of a texture: none, or those of a Quake 2 texture
NoEmbeddedDefaults == [format |-> "none", contents |-> 0, flags |-> 0, value |-> 0]

Q2EmbeddedDefaults(contents, flags, value) ==
  [format |-> "q2", contents |-> contents, flags |-> flags, value |-> value]

\* the textures of the registry: one that embeds no defaults, and three of
\* Quake 2
Textures ==
  <<[embeddedDefaults |-> NoEmbeddedDefaults],
    [embeddedDefaults |-> Q2EmbeddedDefaults(1, 2, 3)],
    [embeddedDefaults |-> Q2EmbeddedDefaults(0, 4, 16777217)],
    [embeddedDefaults |-> Q2EmbeddedDefaults(8, 0, -16777219)]>>

\* the materials of the registry the faces refer to: one without a texture, and
\* one for each texture
Materials ==
  <<[texture |-> Null], [texture |-> 1], [texture |-> 2], [texture |-> 3], [texture |-> 4]>>

MaterialIds == DOMAIN Materials

\* getTexture(material): the texture of the material, or null
getTexture(material) ==
  IF material = Null THEN Null ELSE Materials[material].texture

\* BrushFace::material
material(face) == face.materialReference

\* BrushFace::setMaterial: [face, result]
setMaterial(face, m) ==
  IF m = material(face)
  THEN [face |-> face, result |-> FALSE]
  ELSE [face |-> [face EXCEPT !.materialReference = m], result |-> TRUE]

\* getDefaultSurfaceData
getDefaultSurfaceData(m) ==
  LET texture == getTexture(m)
      defaults == Textures[texture].embeddedDefaults
  IN  IF texture # Null /\ defaults.format = "q2"
      THEN [surfaceContents |-> defaults.contents,
            surfaceFlags |-> defaults.flags,
            surfaceValue |-> float(defaults.value)]
      ELSE [surfaceContents |-> 0, surfaceFlags |-> 0, surfaceValue |-> 0]

\* std::optional::value_or
value_or(optional, default) == IF optional # <<>> THEN optional[1] ELSE default

\* resolveSurfaceData taking an attribute that is set to zero for one not set
resolveSurfaceData_zeroUnset(attributes, m) ==
  LET default == getDefaultSurfaceData(m)
      or(optional, d) == IF optional # <<>> /\ optional[1] # 0 THEN optional[1] ELSE d
  IN  [surfaceContents |-> or(attributes.surfaceContents, default.surfaceContents),
       surfaceFlags |-> or(attributes.surfaceFlags, default.surfaceFlags),
       surfaceValue |-> or(attributes.surfaceValue, default.surfaceValue)]

\* resolveSurfaceData
resolveSurfaceData(attributes, m) ==
  LET defaultSurfaceData == getDefaultSurfaceData(m)
  IN  [surfaceContents |-> value_or(attributes.surfaceContents, defaultSurfaceData.surfaceContents),
       surfaceFlags |-> value_or(attributes.surfaceFlags, defaultSurfaceData.surfaceFlags),
       surfaceValue |-> value_or(attributes.surfaceValue, defaultSurfaceData.surfaceValue)]

\* BrushFace::resolvedSurfaceContents
resolvedSurfaceContents(face) ==
  resolveSurfaceData(face.attributes, material(face)).surfaceContents

\* BrushFace::resolvedSurfaceFlags
resolvedSurfaceFlags(face) ==
  resolveSurfaceData(face.attributes, material(face)).surfaceFlags

\* BrushFace::resolvedSurfaceValue
resolvedSurfaceValue(face) ==
  resolveSurfaceData(face.attributes, material(face)).surfaceValue

\* the attributes the faces are given: each surface attribute not set, set to
\* zero, or set to another value
SurfaceAttributes ==
  { [Attributes("m") EXCEPT !.surfaceContents = c, !.surfaceFlags = f, !.surfaceValue = v] :
      c \in {<<>>, <<0>>, <<16>>}, f \in {<<>>, <<0>>, <<32>>}, v \in {<<>>, <<0>>, <<5>>} }

SetMaterial(f) ==
  /\ Running
  /\ faces[f] # NoFace
  /\ \E m \in {Null} \cup MaterialIds :
       LET r == setMaterial(faces[f], m)
       IN  /\ faces' = [faces EXCEPT ![f] = r.face]
           /\ Record(Call("setMaterial", f, 0, <<m>>, NoFace, Ok, <<r.result>>, <<>>))
  /\ UNCHANGED <<uvHeap, ndebug>>

ResolvedSurfaceContents(f) ==
  /\ Running
  /\ faces[f] # NoFace
  /\ Record(Call("resolvedSurfaceContents", f, 0, <<>>, NoFace, Ok,
                 <<resolvedSurfaceContents(faces[f])>>, <<>>))
  /\ UNCHANGED <<faces, uvHeap, ndebug>>

ResolvedSurfaceFlags(f) ==
  /\ Running
  /\ faces[f] # NoFace
  /\ Record(Call("resolvedSurfaceFlags", f, 0, <<>>, NoFace, Ok,
                 <<resolvedSurfaceFlags(faces[f])>>, <<>>))
  /\ UNCHANGED <<faces, uvHeap, ndebug>>

ResolvedSurfaceValue(f) ==
  /\ Running
  /\ faces[f] # NoFace
  /\ Record(Call("resolvedSurfaceValue", f, 0, <<>>, NoFace, Ok,
                 <<resolvedSurfaceValue(faces[f])>>, <<>>))
  /\ UNCHANGED <<faces, uvHeap, ndebug>>

NextResolve ==
  \/ Untimed /\ Create(1, OwnTriples)
  \/ Untimed /\ SetAttributes(1, SurfaceAttributes)
  \/ Untimed /\ SetMaterial(1)
  \/ Untimed /\ ResolvedSurfaceContents(1)
  \/ Untimed /\ ResolvedSurfaceFlags(1)
  \/ Untimed /\ ResolvedSurfaceValue(1)

SpecResolve == Init /\ [][NextResolve]_vars

\* the face refers to a material whose texture embeds Quake 2 defaults
HasQ2Defaults(face) ==
  /\ face.materialReference # Null
  /\ Materials[face.materialReference].texture # Null
  /\ Textures[Materials[face.materialReference].texture].embeddedDefaults.format = "q2"

Q2Defaults(face) == Textures[Materials[face.materialReference].texture].embeddedDefaults

\* what a resolver answers: the attribute if it is set, else the embedded Quake 2
\* default (as converted), else zero
Resolved(face, attribute, default) ==
  IF attribute # <<>> THEN attribute[1]
  ELSE IF HasQ2Defaults(face) THEN default
  ELSE 0

Resolving == last.op \in {"resolvedSurfaceContents", "resolvedSurfaceFlags", "resolvedSurfaceValue"}

ResolvedContentsAndFlags ==
  LET face == faces[last.face]
  IN  /\ last.op = "resolvedSurfaceContents" =>
           last.out[1] = Resolved(face, face.attributes.surfaceContents, Q2Defaults(face).contents)
      /\ last.op = "resolvedSurfaceFlags" =>
           last.out[1] = Resolved(face, face.attributes.surfaceFlags, Q2Defaults(face).flags)

\* a resolver leaves the face, and with it the material it refers to, as it was
ResolveIsPure == [][Resolving' => faces' = faces /\ uvHeap' = uvHeap]_vars

\* C13 as claimed: each resolver returns the attribute if it is set, else the
\* embedded Quake 2 default of the material's texture, else 0; the value included.
C13_ResolvedIsEmbeddedDefault ==
  LET face == faces[last.face]
  IN  /\ ResolvedContentsAndFlags
      /\ last.op = "resolvedSurfaceValue" =>
           last.out[1] = Resolved(face, face.attributes.surfaceValue, Q2Defaults(face).value)

\* C13, amended: each resolver returns the attribute if it is set, else the
\* embedded Quake 2 default of the material's texture, which for the surface
\* value is the default converted to float, else 0; and resolving changes neither
\* the face nor its material.
C13_ResolvedIsConvertedDefault ==
  /\ [](LET face == faces[last.face]
        IN  /\ ResolvedContentsAndFlags
            /\ last.op = "resolvedSurfaceValue" =>
                 last.out[1] = Resolved(face, face.attributes.surfaceValue,
                                        float(Q2Defaults(face).value)))
  /\ ResolveIsPure

\* a surface value is resolved to the embedded default of a Quake 2 texture, while
\* the contents of the face are set to zero
C13_Witness ==
  /\ last.op = "resolvedSurfaceValue"
  /\ faces[last.face].attributes.surfaceValue = <<>>
  /\ faces[last.face].attributes.surfaceContents = <<0>>
  /\ HasQ2Defaults(faces[last.face])
  /\ Q2Defaults(faces[last.face]).contents # 0
  /\ last.out[1] # 0


-----------------------------------------------------------------------------
(* The winding of the points of a transformed face. *)

TransformedOk == last.op = "transform" /\ last.status = Ok

\* the three points of the face before the call, transformed by the matrix
Moved ==
  << Apply(last.args[1], last.pre.points[1]), Apply(last.args[1], last.pre.points[2]),
     Apply(last.args[1], last.pre.points[3]) >>

\* the plane of the face before the call, transformed by the matrix
MovedPlane == PlaneTransform(last.pre.boundary, last.args[1])

\* the normal of the point triple, as from_points takes it
TripleNormal(ps) == Normalize(Cross(VSub(ps[3], ps[1]), VSub(ps[2], ps[1])))

\* two directions are opposed, or point the same way: the sign of their product
Opposed(n, m) == Dot(n, m) < 0

SameWay(n, m) == Dot(n, m) > 0

\* the stored points are the transformed ones with the second and third swapped
Swapped == faces[last.face].points = Corrected(<<Moved[1], Moved[3], Moved[2]>>)

Unswapped == faces[last.face].points = Corrected(Moved)

\* the second and third point are swapped exactly when the normal of the
\* transformed triple is opposed to that of the transformed plane
SwapsWhenOpposed ==
  IF Opposed(TripleNormal(Moved), MovedPlane.normal) THEN Swapped ELSE Unswapped

\* the plane re-derived from the stored points looks the way of the transformed one
KeepsFacing ==
  SameWay(TripleNormal(faces[last.face].points), MovedPlane.normal)

\* the determinant of the linear part of a matrix
Det(M) == Dot(M.lin[1], Cross(M.lin[2], M.lin[3]))

-----------------------------------------------------------------------------
(* The UV step of transform. *)

TransformFailed == last.op = "transform" /\ last.status = InvalidFace

\* the point transform captures before it changes the face
InvariantOf(face) ==
  IF face.geometry # Null THEN center(face) ELSE PlaneAnchor(face.boundary)

\* a successful transform has called the UV coordinate system once, after the
\* plane was re-derived from the corrected points, with the plane before the
\* call, the re-derived plane and the invariant point captured before the call
UVStepOnce ==
  TransformedOk =>
    LET face == faces[last.face]
    IN  /\ face.boundary = from_points(face.points[1], face.points[2], face.points[3])
        /\ Len(last.calls) = 1
        /\ last.calls[1].fn = "transform"
        /\ last.calls[1].oldBoundary = last.pre.boundary
        /\ last.calls[1].newBoundary = face.boundary
        /\ last.calls[1].lockAlignment = last.args[2]
        /\ last.calls[1].invariant = InvariantOf(last.pre)

\* a failed transform has not called the UV coordinate system and has left the
\* attributes as they were
NoUVStepOnFailure ==
  TransformFailed =>
    /\ last.calls = <<>>
    /\ faces[last.face].attributes = last.pre.attributes
    /\ faces[last.face].uvCoordSystem = last.pre.uvCoordSystem

\* a failed transform leaves every UV coordinate system as it was
FailureKeepsUV == [][TransformFailed' => uvHeap' = uvHeap]_vars

\* C15: the UV step of transform runs only after the plane has been re-derived
\* from the corrected points, then exactly once, with the plane before the call,
\* the re-derived plane and the invariant point captured before any change (the
\* center of the polygon if a geometry is attached, else the anchor of the old
\* plane); when the re-derivation fails, transform returns "Brush has invalid
\* face", the UV step is not run and attributes and UV system are unchanged.
C15_UVStepAfterRederivation ==
  /\ [](last.op = "transform" => last.status \in {Ok, InvalidFace})
  /\ [](UVStepOnce /\ NoUVStepOnFailure)
  /\ FailureKeepsUV

\* a face attached to its geometry has been transformed: the UV step ran once,
\* with the center of the polygon, not the anchor of the old plane, as the
\* invariant point, and with a re-derived plane other than the old one
C15_Witness ==
  /\ TransformedOk
  /\ last.pre.geometry # Null
  /\ Len(last.calls) = 1
  /\ last.calls[1].invariant = center(last.pre)
  /\ last.calls[1].invariant # PlaneAnchor(last.pre.boundary)
  /\ last.calls[1].newBoundary # last.calls[1].oldBoundary

====
